---- MODULE Spec2Model ----
(***************************************************************************)
(* Model of the ETL core of the stock screener: the indicator functions of *)
(* etl/calculations.py, the metrics store and incremental price            *)
(* reconciliation of etl/db_manager.py, the retries of etl/data_fetcher.py *)
(* and the price sync of etl/main.py.                                      *)
(*                                                                         *)
(* Numbers.  Python floats are modelled as exact rationals [n, d] in       *)
(* lowest terms with d > 0 (rounding error is not modelled).  An optional  *)
(* value (Python None, SQL NULL, a missing dict key) is the empty tuple,   *)
(* a present value v is the one-element tuple <<v>>.                       *)
(* The columns of ticker_metrics are NUMERIC(12, 4) and NUMERIC(8, 4): no  *)
(* value of the model has more than four decimals or as many digits as     *)
(* would overflow them, so a value is stored as it is written.  psycopg2   *)
(* hands a NUMERIC column back as a decimal.Decimal, and the prices of the *)
(* price sync are floats (data_fetcher.py line 132): Python compares the   *)
(* two, and raises TypeError when it is asked to subtract them.            *)
(* Time.  datetime.now() is the naive local time of the machine, which     *)
(* can repeat and can go back (a clock that is set, the end of summer      *)
(* time): a reading is any instant of 1..MaxClock, whatever was read       *)
(* before, by the same process or another.  clock is the latest reading.   *)
(***************************************************************************)
EXTENDS Integers, Sequences, FiniteSets, TLC

\* ------------------------------------------------------------------ bounds
MaxPrice == 1
MaxBatch == 2
MaxClock == 2
MaxCalls == 2
MaxLen == 3

\* ------------------------------------------------------- program constants
SMA_WINDOW == 150
LOOKBACK == 252
MAX_RETRIES == 3
INITIAL_BACKOFF_SECONDS == 1

\* ---------------------------------------------------------------- numbers
Abs(x) == IF x < 0 THEN -x ELSE x

RECURSIVE Gcd(_, _)
Gcd(a, b) == IF b = 0 THEN a ELSE Gcd(b, a % b)

Rat(n, d) ==
    LET g == Gcd(Abs(n), Abs(d))
        s == IF d < 0 THEN -1 ELSE 1
    IN  [n |-> (s * n) \div g, d |-> (s * d) \div g]

Num(i) == [n |-> i, d |-> 1]
RAdd(a, b) == Rat(a.n * b.d + b.n * a.d, a.d * b.d)
RSub(a, b) == Rat(a.n * b.d - b.n * a.d, a.d * b.d)
RMul(a, b) == Rat(a.n * b.n, a.d * b.d)
RDiv(a, b) == Rat(a.n * b.d, a.d * b.n)
RGt(a, b) == a.n * b.d > b.n * a.d
RGe(a, b) == a.n * b.d >= b.n * a.d
IsZero(a) == a.n = 0

None == <<>>
Some(v) == <<v>>
IsNone(o) == o = <<>>
Val(o) == o[1]

\* ------------------------------------------------- etl/calculations.py
\* sum() and max() over s[lo..hi], by halves (the order of the additions
\* does not change an exact sum).
RECURSIVE SumRange(_, _, _)
SumRange(s, lo, hi) ==
    IF lo > hi THEN Num(0)
    ELSE IF lo = hi THEN s[lo]
    ELSE LET mid == (lo + hi) \div 2
         IN  RAdd(SumRange(s, lo, mid), SumRange(s, mid + 1, hi))

SumSeq(s) == SumRange(s, 1, Len(s))

RECURSIVE MaxRange(_, _, _)
MaxRange(s, lo, hi) ==
    IF lo = hi THEN s[lo]
    ELSE LET mid == (lo + hi) \div 2
             a == MaxRange(s, lo, mid)
             b == MaxRange(s, mid + 1, hi)
         IN  IF RGt(b, a) THEN b ELSE a

MaxSeq(s) == MaxRange(s, 1, Len(s))

\* Python's s[-k:] for k > 0: the last k elements, or all of s when shorter.
LastK(s, k) == IF Len(s) <= k THEN s ELSE SubSeq(s, Len(s) - k + 1, Len(s))

\* An average of the first window prices instead of the last.
calculate_sma_first_window(prices, window) ==
    IF Len(prices) = 0 \/ Len(prices) < window \/ window <= 0
    THEN None
    ELSE Some(RDiv(SumSeq(SubSeq(prices, 1, window)), Num(window)))

calculate_sma(prices, window) ==
    IF Len(prices) = 0 \/ Len(prices) < window \/ window <= 0
    THEN None
    ELSE Some(RDiv(SumSeq(LastK(prices, window)), Num(window)))

\* The highest high of the whole list, however long.
calculate_52_week_high_all_time(daily_high_prices) ==
    IF Len(daily_high_prices) = 0 THEN None ELSE Some(MaxSeq(daily_high_prices))

calculate_52_week_high(daily_high_prices) ==
    IF Len(daily_high_prices) = 0
    THEN None
    ELSE LET relevant_prices == LastK(daily_high_prices, LOOKBACK)
         IN  IF Len(relevant_prices) = 0 THEN None
             ELSE Some(MaxSeq(relevant_prices))

calculate_percentage_change_vs_sma150(close_price, sma150) ==
    IF IsNone(sma150) \/ IsZero(Val(sma150))
    THEN None
    ELSE Some(RMul(RDiv(RSub(close_price, Val(sma150)), Val(sma150)), Num(100)))

\* A percentage of 0 instead of null against a high of zero.
calculate_percentage_change_vs_52w_high_zero_base(close_price, high52w) ==
    IF IsNone(high52w) THEN None
    ELSE IF IsZero(Val(high52w)) THEN Some(Num(0))
    ELSE Some(RMul(RDiv(RSub(close_price, Val(high52w)), Val(high52w)), Num(100)))

calculate_percentage_change_vs_52w_high(close_price, high52w) ==
    IF IsNone(high52w) \/ IsZero(Val(high52w))
    THEN None
    ELSE Some(RMul(RDiv(RSub(close_price, Val(high52w)), Val(high52w)), Num(100)))

\* A derivation that takes the close of the last bar as the price instead
\* of current_close.
process_ticker_data_last_bar(historical_data, current_close) ==
    IF Len(historical_data) = 0
    THEN None
    ELSE IF ~(\A i \in 1..Len(historical_data) :
                ~IsNone(historical_data[i].close) /\ ~IsNone(historical_data[i].high))
    THEN None
    ELSE LET close_prices == [i \in 1..Len(historical_data) |-> Val(historical_data[i].close)]
             high_prices == [i \in 1..Len(historical_data) |-> Val(historical_data[i].high)]
             last_close == close_prices[Len(close_prices)]
             sma150 == calculate_sma(close_prices, SMA_WINDOW)
             high_52w == calculate_52_week_high(high_prices)
         IN  Some([lastPrice |-> last_close,
                   sma150 |-> sma150,
                   hi52w |-> high_52w,
                   pctVsSma150 |-> calculate_percentage_change_vs_sma150(last_close, sma150),
                   pctVs52w |-> calculate_percentage_change_vs_52w_high(last_close, high_52w)])

\* A bar is [close, high], each optional: None stands for a missing key.
process_ticker_data(historical_data, current_close) ==
    IF Len(historical_data) = 0
    THEN None
    ELSE IF ~(\A i \in 1..Len(historical_data) :
                ~IsNone(historical_data[i].close) /\ ~IsNone(historical_data[i].high))
    THEN None
    ELSE LET close_prices == [i \in 1..Len(historical_data) |-> Val(historical_data[i].close)]
             high_prices == [i \in 1..Len(historical_data) |-> Val(historical_data[i].high)]
             sma150 == calculate_sma(close_prices, SMA_WINDOW)
             high_52w == calculate_52_week_high(high_prices)
         IN  Some([lastPrice |-> current_close,
                   sma150 |-> sma150,
                   hi52w |-> high_52w,
                   pctVsSma150 |-> calculate_percentage_change_vs_sma150(current_close, sma150),
                   pctVs52w |-> calculate_percentage_change_vs_52w_high(current_close, high_52w)])

\* ------------------------------------------------- etl/db_manager.py
\* A row of ticker_metrics.  PRIMARY KEY (updatedAt, symbol).
Row(symbol, m, updatedAt) ==
    [symbol |-> symbol, lastPrice |-> m.lastPrice, sma150 |-> m.sma150,
     hi52w |-> m.hi52w, pctVsSma150 |-> m.pctVsSma150, pctVs52w |-> m.pctVs52w,
     updatedAt |-> updatedAt]

SameKey(r, q) == r.updatedAt = q.updatedAt /\ r.symbol = q.symbol

\* INSERT ... ON CONFLICT (updatedAt, symbol) DO NOTHING: the first row of
\* a key stays.
Upsert_do_nothing(st, r) ==
    IF \E q \in st : SameKey(q, r) THEN st ELSE st \cup {r}

\* INSERT ... ON CONFLICT (updatedAt, symbol) DO UPDATE SET <all value columns>.
Upsert(st, r) == {q \in st : ~SameKey(q, r)} \cup {r}

RECURSIVE UpsertAll(_, _)
UpsertAll(st, rows) ==
    IF Len(rows) = 0 THEN st ELSE UpsertAll(Upsert(st, Head(rows)), Tail(rows))

\* updatedAt as the caller gives it: a datetime, an ISO string, or neither.
\* now is the reading of datetime.now() the fallback of line 125 takes for
\* this record.
NormalizeUpdatedAt(updated_at, now) ==
    CASE updated_at.kind = "str" -> updated_at.t
      [] updated_at.kind = "datetime" -> updated_at.t
      [] OTHER -> now

\* Whether the loop of lines 119-135 reads datetime.now() for the record.
TakesFallback(record) == record.updatedAt.kind \notin {"str", "datetime"}

\* The instants a reading of datetime.now() can give.
datetime_now == 1..MaxClock

\* The readings of datetime.now() a call of store_ticker_metrics can take
\* on metrics_data when the clock was last read at instant last: one per
\* record that takes the fallback, in the order of the records.  nows[i]
\* is the reading taken for record i, and for a record that takes none the
\* latest reading so far.
Readings(metrics_data, last) ==
    {nows \in [1..Len(metrics_data) -> {last} \cup datetime_now] :
        \A i \in 1..Len(metrics_data) :
           LET before == IF i = 1 THEN last ELSE nows[i - 1]
           IN  IF TakesFallback(metrics_data[i])
               THEN nows[i] \in datetime_now
               ELSE nows[i] = before}

\* A call that takes no reading: every record carries its datetime.
NoReadings == <<>>

\* Lines 118-135: the tuple of each record, its updatedAt normalised.
values_to_insert(metrics_data, nows) ==
    [i \in 1..Len(metrics_data) |->
        [metrics_data[i] EXCEPT !.updatedAt =
            NormalizeUpdatedAt(@, IF TakesFallback(metrics_data[i]) THEN nows[i] ELSE 0)]]

\* A store_ticker_metrics without its rollback: the first row of a failed
\* write stays.
store_ticker_metrics_no_rollback(st, metrics_data, nows, ok) ==
    IF Len(metrics_data) = 0 THEN st
    ELSE IF ok THEN UpsertAll(st, values_to_insert(metrics_data, nows))
    ELSE Upsert(st, values_to_insert(metrics_data, nows)[1])

\* store_ticker_metrics: the store after the call.  nows are the readings
\* of datetime.now() the call takes; ok is whether the INSERT and the
\* commit succeed; on psycopg2.Error the transaction is rolled back and the
\* exception raised again.
store_ticker_metrics(st, metrics_data, nows, ok) ==
    IF Len(metrics_data) = 0 THEN st
    ELSE IF ok THEN UpsertAll(st, values_to_insert(metrics_data, nows))
    ELSE st

\* Whether store_ticker_metrics raises.
store_ticker_metrics_raises(metrics_data, ok) == Len(metrics_data) > 0 /\ ~ok

\* SELECT ... WHERE symbol = %s ORDER BY updatedAt DESC: the rows of the
\* symbol, the newest first.
RECURSIVE OrderByUpdatedAtDesc(_)
OrderByUpdatedAtDesc(rows) ==
    IF rows = {} THEN <<>>
    ELSE LET first == CHOOSE r \in rows : \A q \in rows : q.updatedAt <= r.updatedAt
         IN  <<first>> \o OrderByUpdatedAtDesc(rows \ {first})

\* The query without its WHERE clause: the newest row of any symbol.
get_latest_metrics_unfiltered(st, symbol, ok) ==
    IF ok
    THEN LET result == OrderByUpdatedAtDesc(st)
         IN  IF Len(result) > 0 THEN Some(result[1]) ELSE None
    ELSE None

\* A lookup that returns the latest row also when the query has failed.
get_latest_metrics_despite_failure(st, symbol, ok) ==
    LET result == OrderByUpdatedAtDesc({r \in st : r.symbol = symbol})
    IN  IF Len(result) > 0 THEN Some(result[1]) ELSE None

\* get_latest_metrics_for_symbol: ok is whether the query succeeds; a
\* psycopg2.Error is caught and None returned.
get_latest_metrics_for_symbol(st, symbol, ok) ==
    IF ok
    THEN LET result == OrderByUpdatedAtDesc({r \in st : r.symbol = symbol})
         IN  IF Len(result) > 0 THEN Some(result[1]) ELSE None
    ELSE None

\* What a loop iteration of update_stock_prices ends with when its
\* arithmetic raises: new_price is a float and the stored values read back
\* are decimal.Decimal, and float - Decimal is a TypeError.
TypeError == [raised |-> "TypeError"]

Raised(r) == r = TypeError

\* updated_record with the ratchet left out, on columns read back as
\* floats: hi52w follows the new price, and nothing raises.
updated_record_unratcheted(symbol, new_price, latest_record_for_symbol, now) ==
    LET sma150 == latest_record_for_symbol.sma150
        hi52w == IF IsNone(latest_record_for_symbol.hi52w) THEN None ELSE Some(new_price)
    IN  [symbol |-> symbol, lastPrice |-> new_price, sma150 |-> sma150,
         hi52w |-> hi52w,
         pctVsSma150 |-> calculate_percentage_change_vs_sma150(new_price, sma150),
         pctVs52w |-> calculate_percentage_change_vs_52w_high(new_price, hi52w),
         updatedAt |-> [kind |-> "datetime", t |-> now]]

\* The Tracked branch of update_stock_prices, lines 246-269: the record
\* built from the latest stored record of the symbol and the new price, or
\* TypeError.  The float new_price meets the Decimal sma150 and hi52w of
\* the stored record:
\*   line 259  "sma150 != 0" compares, and when it holds
\*             "new_price - sma150" raises;
\*   line 264  "new_price > hi52w" compares, and when it holds hi52w
\*             becomes the float new_price;
\*   line 266  "hi52w != 0" compares, and when it holds "new_price - hi52w"
\*             raises unless hi52w is the float of line 265.
updated_record(symbol, new_price, latest_record_for_symbol, now) ==
    LET sma150 == latest_record_for_symbol.sma150
        prior_hi52w == latest_record_for_symbol.hi52w
        sma150_raises == IF IsNone(sma150) THEN FALSE ELSE ~IsZero(Val(sma150))
        new_high ==
            IF IsNone(prior_hi52w) THEN FALSE ELSE RGt(new_price, Val(prior_hi52w))
        hi52w == IF new_high THEN Some(new_price) ELSE prior_hi52w
        hi52w_raises ==
            IF IsNone(prior_hi52w) \/ new_high THEN FALSE ELSE ~IsZero(Val(prior_hi52w))
        pctVs52w ==
            IF ~IsNone(prior_hi52w)
            THEN IF ~IsZero(Val(hi52w))
                 THEN Some(RMul(RDiv(RSub(new_price, Val(hi52w)), Val(hi52w)), Num(100)))
                 ELSE None
            ELSE None
    IN  IF sma150_raises \/ hi52w_raises
        THEN TypeError
        ELSE [symbol |-> symbol, lastPrice |-> new_price, sma150 |-> sma150,
              hi52w |-> hi52w, pctVsSma150 |-> None, pctVs52w |-> pctVs52w,
              updatedAt |-> [kind |-> "datetime", t |-> now]]

\* The Untracked branch: no record of the symbol was returned.
new_partial_record(symbol, new_price, now) ==
    [symbol |-> symbol, lastPrice |-> new_price, sma150 |-> None,
     hi52w |-> Some(new_price), pctVsSma150 |-> None, pctVs52w |-> Some(Num(0)),
     updatedAt |-> [kind |-> "datetime", t |-> now]]

\* "if not symbol or new_price is None": a missing or empty symbol, a
\* missing price.  A price of 0 is a price.
IsInvalidUpdate(update) ==
    IF IsNone(update.symbol) THEN TRUE
    ELSE IF Val(update.symbol) = "" THEN TRUE
    ELSE IsNone(update.lastPrice)

\* One iteration of the loop of update_stock_prices over a valid update:
\* the record appended to records_to_store, or the TypeError that ends the
\* loop and the call.
prepared_record(st, update, now, query_ok) ==
    LET symbol == Val(update.symbol)
        new_price == Val(update.lastPrice)
        latest_record_for_symbol == get_latest_metrics_for_symbol(st, symbol, query_ok)
    IN  IF ~IsNone(latest_record_for_symbol)
        THEN updated_record(symbol, new_price, Val(latest_record_for_symbol), now)
        ELSE new_partial_record(symbol, new_price, now)

\* ------------------------------------------------------------ the inputs
Symbols == {"A", "B"}
Prices == {Num(p) : p \in 0..MaxPrice}
Writers == {"w1", "w2"}

SeqsUpTo(S, n) == UNION {[1..k -> S] : k \in 0..n}

\* price_updates entries: every symbol with every price, and the invalid
\* ones: the symbol missing, the symbol empty, the price missing.
Updates ==
    [symbol : {Some(s) : s \in Symbols}, lastPrice : {Some(p) : p \in Prices}]
    \cup {[symbol |-> None, lastPrice |-> Some(Num(1))],
          [symbol |-> Some(""), lastPrice |-> Some(Num(1))],
          [symbol |-> Some("A"), lastPrice |-> None]}

Bar(c, h) == [close |-> Some(Num(c)), high |-> Some(Num(h))]

\* Histories of process_ticker_data: empty, a bar without its high, a
\* single bar, SMA_WINDOW bars at zero but the last, and SMA_WINDOW bars
\* at zero.
Histories ==
    {<<>>,
     <<[close |-> Some(Num(1)), high |-> None]>>,
     <<Bar(1, 1)>>,
     [i \in 1..SMA_WINDOW |-> IF i < SMA_WINDOW THEN Bar(0, 0) ELSE Bar(1, 1)],
     [i \in 1..SMA_WINDOW |-> Bar(0, 0)]}

\* The metrics of a record handed to store_ticker_metrics: a price, its
\* two bases, and the percentages of calculations.py against them.
MetricsOf(close_price, sma150, high_52w) ==
    [lastPrice |-> close_price,
     sma150 |-> sma150,
     hi52w |-> high_52w,
     pctVsSma150 |-> calculate_percentage_change_vs_sma150(close_price, sma150),
     pctVs52w |-> calculate_percentage_change_vs_52w_high(close_price, high_52w)]

\* Two of them: one with both bases, one with the high alone.
MetricsSamples ==
    {MetricsOf(Num(3), Some(Num(4)), Some(Num(4))),
     MetricsOf(Num(1), None, Some(Num(1)))}

\* updatedAt as a caller of store_ticker_metrics gives it at instant now:
\* a datetime, an ISO string of that or an earlier instant, or neither.
Stamps(now) ==
    {[kind |-> "datetime", t |-> now], [kind |-> "other", t |-> 0]}
    \cup {[kind |-> "str", t |-> t] : t \in 1..now}

MetricsRecords(now) ==
    {Row(s, m, u) : s \in Symbols, m \in MetricsSamples, u \in Stamps(now)}

\* metrics_data of a call of store_ticker_metrics: a list of records.
MetricsBatches(now) == SeqsUpTo(MetricsRecords(now), MaxBatch)

\* ------------------------------------------------------------- the state
VARIABLES
    store,             \* the rows of ticker_metrics
    clock,             \* the last reading of datetime.now()
    calls,             \* how many calls of update_stock_prices, or of
                       \* store_ticker_metrics by itself, have begun
    pc,                \* per writer: "idle"; "loop" or "store" inside
                       \* update_stock_prices; "direct_call" or "direct_store"
                       \* inside a call of store_ticker_metrics of its own
    batch_len,         \* per writer: len(price_updates) of the call in progress
    visited,           \* per writer: how many updates of it the loop has visited
                       \* (after a call that raised: had visited)
    update,            \* per writer: the update the loop visited last, if any
                       \* (after a call that raised: the update it raised on)
    records_to_store,  \* per writer: the records the call in progress has prepared
    now_timestamp,     \* per writer: its latest call's reading of datetime.now()
    tx_failed,         \* per writer: the connection's transaction is aborted
    outcome,           \* per writer: how its latest call ended ("none" during a call)
    overlaps,          \* history: "symbol" once two writers' read-then-write
                       \* sequences of one symbol have overlapped
    calc,              \* a call of a function of calculations.py: the function,
                       \* its arguments, and its result once it has returned
    retry,             \* a call of request_with_retry: its locals, what it has
                       \* requested and slept, and how it ended
    sync               \* a run of run_sp500_price_sync: its position, what it
                       \* fetched, its connection, and what it reported

vars == <<store, clock, calls, pc, batch_len, visited, update, records_to_store,
          now_timestamp, tx_failed, outcome, overlaps, calc, retry, sync>>

\* No call of calculations.py in progress.
NoCall == [fn |-> "none", args |-> <<>>, returned |-> FALSE, result |-> None]

ProgramInit ==
    /\ store = {}
    /\ clock = 0
    /\ calls = 0
    /\ pc = [w \in Writers |-> "idle"]
    /\ visited = [w \in Writers |-> 0]
    /\ update = [w \in Writers |-> None]
    /\ batch_len = [w \in Writers |-> 0]
    /\ records_to_store = [w \in Writers |-> <<>>]
    /\ now_timestamp = [w \in Writers |-> 0]
    /\ tx_failed = [w \in Writers |-> FALSE]
    /\ outcome = [w \in Writers |-> "none"]
    /\ overlaps = {}

\* No call of request_with_retry in progress.
NoRequest ==
    [method |-> "none", pc |-> "none", num_retries |-> 0, backoff_seconds |-> 0,
     last_exception |-> None, errors |-> <<>>, requests |-> 0, sleeps |-> <<>>,
     sleeping |-> FALSE, result |-> None, raised |-> None]

\* No run of run_sp500_price_sync in progress.
NoSync ==
    [pc |-> "none", sp500_symbols |-> 0, valid_price_updates |-> 0,
     conn |-> "none", report |-> "none"]

Init == ProgramInit /\ calc = NoCall /\ retry = NoRequest /\ sync = NoSync

\* A caller of store_ticker_metrics reads the clock for the records it
\* stamps and makes the call.  Lines 102-104: with nothing to store the
\* call returns at once.
DirectCall(w) ==
    /\ pc[w] = "idle"
    /\ calls < MaxCalls
    /\ calls' = calls + 1
    /\ \E now \in datetime_now :
          /\ \E metrics_data \in MetricsBatches(now) :
                /\ records_to_store' = [records_to_store EXCEPT ![w] = metrics_data]
                /\ pc' = [pc EXCEPT ![w] =
                      IF Len(metrics_data) = 0 THEN "idle" ELSE "direct_call"]
                /\ outcome' = [outcome EXCEPT ![w] =
                      IF Len(metrics_data) = 0 THEN "direct_nothing" ELSE "none"]
          /\ clock' = now
          /\ now_timestamp' = [now_timestamp EXCEPT ![w] = now]
    /\ UNCHANGED <<store, batch_len, visited, update, tx_failed, overlaps, calc, retry, sync>>

\* Lines 118-135: the loop normalises updatedAt record by record, reading
\* datetime.now() for each record that carries neither a string nor a
\* datetime.
StoreNormalize(w) ==
    /\ pc[w] = "direct_call"
    /\ \E nows \in Readings(records_to_store[w], clock) :
          /\ records_to_store' = [records_to_store EXCEPT ![w] =
                [i \in 1..Len(@) |->
                    [@[i] EXCEPT !.updatedAt =
                        [kind |-> "datetime",
                         t |-> values_to_insert(records_to_store[w], nows)[i].updatedAt]]]]
          /\ clock' = nows[Len(nows)]
    /\ pc' = [pc EXCEPT ![w] = "direct_store"]
    /\ UNCHANGED <<store, calls, batch_len, visited, update, now_timestamp, tx_failed,
                   outcome, overlaps, calc, retry, sync>>

\* Lines 137-146: the tuples are written in one transaction on the
\* caller's connection, which commits, or rolls back and raises.
StoreExecute(w) ==
    /\ pc[w] = "direct_store"
    /\ \E ok \in BOOLEAN :
          /\ store' = store_ticker_metrics(store, records_to_store[w], NoReadings, ok)
          /\ outcome' = [outcome EXCEPT ![w] =
                IF store_ticker_metrics_raises(records_to_store[w], ok)
                THEN "direct_failed" ELSE "direct_stored"]
    /\ pc' = [pc EXCEPT ![w] = "idle"]
    /\ records_to_store' = [records_to_store EXCEPT ![w] = <<>>]
    /\ UNCHANGED <<clock, calls, batch_len, visited, update, now_timestamp, tx_failed,
                   overlaps, calc, retry, sync>>

\* History of overlaps between the calls of two writers.  A lookup of a
\* symbol (line 244) made while another writer has read that
\* symbol's prior record and not yet written its own (it holds a prepared
\* record of the symbol) is an overlap of two read-then-write sequences
\* of the symbol.
SymbolOverlap(w, u) ==
    IF \E w2 \in Writers \ {w} :
          \E i \in 1..Len(records_to_store[w2]) :
              Some(records_to_store[w2][i].symbol) = u.symbol
    THEN {"symbol"} ELSE {}

\* update_stock_prices, lines 226-232: an empty batch returns at once;
\* otherwise the batch's timestamp is read, whatever the instants of the
\* rows stored so far, and the loop entered.  The batch is a list of
\* len(price_updates) updates; each is drawn when the loop visits it.
UspBegin(w) ==
    /\ pc[w] = "idle"
    /\ calls < MaxCalls
    /\ \E n \in 0..MaxBatch, now \in datetime_now :
          IF n = 0
          THEN UNCHANGED vars
          ELSE /\ clock' = now
               /\ calls' = calls + 1
               /\ now_timestamp' = [now_timestamp EXCEPT ![w] = now]
               /\ batch_len' = [batch_len EXCEPT ![w] = n]
               /\ visited' = [visited EXCEPT ![w] = 0]
               /\ update' = [update EXCEPT ![w] = None]
               /\ records_to_store' = [records_to_store EXCEPT ![w] = <<>>]
               /\ pc' = [pc EXCEPT ![w] = "loop"]
               /\ outcome' = [outcome EXCEPT ![w] = "none"]
               /\ UNCHANGED <<store, tx_failed, overlaps, calc, retry, sync>>

\* Lines 234-241: an invalid update is skipped.
UspSkip(w) ==
    /\ pc[w] = "loop"
    /\ \E u \in Updates :
          /\ IsInvalidUpdate(u)
          /\ update' = [update EXCEPT ![w] = Some(u)]
    /\ visited' = [visited EXCEPT ![w] = @ + 1]
    /\ pc' = [pc EXCEPT ![w] = IF visited[w] + 1 = batch_len[w] THEN "store" ELSE "loop"]
    /\ UNCHANGED <<store, clock, calls, batch_len, records_to_store, now_timestamp,
                   tx_failed, outcome, overlaps, calc, retry, sync>>

\* A loop body that writes each record as it prepares it.
UspPrepare_write_through(w) ==
    /\ pc[w] = "loop"
    /\ \E u \in Updates :
          LET r == prepared_record(store, u, now_timestamp[w], TRUE)
          IN  /\ ~IsInvalidUpdate(u)
              /\ ~Raised(r)
              /\ update' = [update EXCEPT ![w] = Some(u)]
              /\ records_to_store' = [records_to_store EXCEPT ![w] = Append(@, r)]
              /\ store' = store_ticker_metrics(store, <<r>>, NoReadings, TRUE)
              /\ overlaps' = overlaps \cup SymbolOverlap(w, u)
    /\ visited' = [visited EXCEPT ![w] = @ + 1]
    /\ pc' = [pc EXCEPT ![w] = IF visited[w] + 1 = batch_len[w] THEN "store" ELSE "loop"]
    /\ UNCHANGED <<clock, calls, batch_len, now_timestamp, tx_failed, outcome, calc, retry, sync>>

\* Lines 243-287: the latest record is read and a record prepared.  The
\* query fails when the database raises, and always once a statement of
\* the connection's open transaction has failed (psycopg2: every statement
\* raises until rollback()).
UspPrepare(w) ==
    /\ pc[w] = "loop"
    /\ \E u \in Updates, ok \in BOOLEAN :
          LET query_ok == ok /\ ~tx_failed[w]
              r == prepared_record(store, u, now_timestamp[w], query_ok)
          IN  /\ ~IsInvalidUpdate(u)
              /\ ~Raised(r)
              /\ update' = [update EXCEPT ![w] = Some(u)]
              /\ records_to_store' = [records_to_store EXCEPT ![w] = Append(@, r)]
              /\ tx_failed' = [tx_failed EXCEPT ![w] = ~query_ok]
              /\ overlaps' = overlaps \cup SymbolOverlap(w, u)
    /\ visited' = [visited EXCEPT ![w] = @ + 1]
    /\ pc' = [pc EXCEPT ![w] = IF visited[w] + 1 = batch_len[w] THEN "store" ELSE "loop"]
    /\ UNCHANGED <<store, clock, calls, batch_len, now_timestamp, outcome, calc, retry, sync>>

\* Lines 243-269, when the arithmetic of lines 259 or 266 raises: the loop
\* has no try, so the TypeError leaves update_stock_prices.  The records
\* prepared so far are dropped with the call's frame, store_ticker_metrics
\* is not called, and the connection's transaction stays as the lookup
\* left it.
UspRaise(w) ==
    /\ pc[w] = "loop"
    /\ \E u \in Updates, ok \in BOOLEAN :
          LET query_ok == ok /\ ~tx_failed[w]
              r == prepared_record(store, u, now_timestamp[w], query_ok)
          IN  /\ ~IsInvalidUpdate(u)
              /\ Raised(r)
              /\ update' = [update EXCEPT ![w] = Some(u)]
              /\ overlaps' = overlaps \cup SymbolOverlap(w, u)
    /\ visited' = [visited EXCEPT ![w] = @ + 1]
    /\ records_to_store' = [records_to_store EXCEPT ![w] = <<>>]
    /\ batch_len' = [batch_len EXCEPT ![w] = 0]
    /\ pc' = [pc EXCEPT ![w] = "idle"]
    /\ outcome' = [outcome EXCEPT ![w] = "usp_raised"]
    /\ UNCHANGED <<store, clock, calls, now_timestamp, tx_failed, calc, retry, sync>>

\* Lines 289-297: with no record prepared nothing is stored; otherwise the
\* prepared records are handed to store_ticker_metrics, and what it raises
\* is caught and printed.  The write fails when the database raises, and
\* always when the transaction is aborted; store_ticker_metrics then rolls
\* back.
UspStore(w) ==
    /\ pc[w] = "store"
    /\ \E ok \in BOOLEAN :
          LET write_ok == ok /\ ~tx_failed[w]
          IN  /\ store' = store_ticker_metrics(store, records_to_store[w],
                                               NoReadings, write_ok)
              /\ outcome' = [outcome EXCEPT ![w] =
                    IF Len(records_to_store[w]) = 0 THEN "usp_nothing"
                    ELSE IF store_ticker_metrics_raises(records_to_store[w], write_ok)
                         THEN "usp_failed" ELSE "usp_stored"]
    /\ tx_failed' = [tx_failed EXCEPT ![w] = FALSE]
    /\ pc' = [pc EXCEPT ![w] = "idle"]
    /\ records_to_store' = [records_to_store EXCEPT ![w] = <<>>]
    /\ batch_len' = [batch_len EXCEPT ![w] = 0]
    /\ visited' = [visited EXCEPT ![w] = 0]
    /\ update' = [update EXCEPT ![w] = None]
    /\ UNCHANGED <<clock, calls, now_timestamp, overlaps, calc, retry, sync>>

\* Whether a call of update_stock_prices raises.  What the loop raises
\* leaves the call; what store_ticker_metrics raises (lines 289-295) is
\* caught by "except Exception" and printed, and nothing is raised again.
update_stock_prices_raises(loop_raises, write_raises) == loop_raises

\* run_sp500_price_sync, main.py lines 98-105: what it prints after the
\* call of update_stock_prices: "completed" when the call returns, "error"
\* when it raises.
sync_report(usp_raises) == IF usp_raises THEN "error" ELSE "completed"

\* What run_sp500_price_sync has reported of writer w's latest call of
\* update_stock_prices, "none" when the latest call was not one or is in
\* progress.
sync_status(w) ==
    IF outcome[w] \in {"usp_nothing", "usp_failed", "usp_stored", "usp_raised"}
    THEN sync_report(update_stock_prices_raises(outcome[w] = "usp_raised",
                                                outcome[w] = "usp_failed"))
    ELSE "none"

update_stock_prices(w) ==
    UspBegin(w) \/ UspSkip(w) \/ UspPrepare(w) \/ UspRaise(w) \/ UspStore(w)

\* The program as it is run: one caller, one call at a time.  Nothing but
\* update_stock_prices writes rows: run_full_etl prints its outline and
\* calls nothing.
Next == update_stock_prices("w1")

Spec == Init /\ [][Next]_vars

\* store_ticker_metrics by itself: a caller hands it lists of records of
\* its own, one call after another.
NextStore == DirectCall("w1") \/ StoreNormalize("w1") \/ StoreExecute("w1")

SpecStore == Init /\ [][NextStore]_vars

\* Two writers, each on a connection of its own, calling update_stock_prices
\* with nothing that orders their steps: the code takes no lock and its
\* transactions run at READ COMMITTED, so a lookup sees exactly the rows
\* committed so far.
NextConcurrent == \E w \in Writers : update_stock_prices(w)

SpecConcurrent == Init /\ [][NextConcurrent]_vars

\* ------------------------------------------- calls of calculations.py
\* The arguments the functions are called with.  Lists of prices: every
\* list of up to MaxLen prices, and the list of the docstring.
SmaExample == <<Num(10), Num(11), Num(12), Num(13), Num(14)>>

PriceLists == SeqsUpTo(Prices, MaxLen) \cup {SmaExample}

Windows == (0 - 1) .. (MaxLen + 1)

\* Lists of daily highs: the short lists, and lists of more than LOOKBACK
\* highs, flat but for one peak above every price, which lies before the
\* last LOOKBACK highs, or is the first or the last of them.
PeakList(extra, at, p) ==
    [i \in 1..(LOOKBACK + extra) |-> IF i = at THEN Num(MaxPrice + 1) ELSE p]

HighLists ==
    SeqsUpTo(Prices, MaxLen)
    \cup {PeakList(extra, at, p) :
             extra \in 1..MaxLen, at \in {1, 2, LOOKBACK + 1}, p \in Prices}

\* Closing prices and reference values of the percentage functions: the
\* prices, and the values of the docstrings.
PctPrices == Prices \cup {Num(95), Num(100), Num(110), Num(190), Num(200)}

PctReferences == {None} \cup {Some(r) : r \in Prices \cup {Num(100), Num(200)}}

\* Histories of process_ticker_data: those above, a bar without
\* its close, SMA_WINDOW bars of which one lacks its high, and a history
\* longer than LOOKBACK whose highest high is its first.
CalcHistories ==
    Histories
    \cup {<<[close |-> None, high |-> Some(Num(1))]>>,
          [i \in 1..SMA_WINDOW |->
              IF i = 2 THEN [close |-> Some(Num(1)), high |-> None] ELSE Bar(1, 1)],
          [i \in 1..(LOOKBACK + 1) |-> IF i = 1 THEN Bar(1, MaxPrice + 1) ELSE Bar(1, 1)]}

Calls ==
    {[fn |-> "calculate_sma", args |-> [prices |-> ps, window |-> w],
      returned |-> FALSE, result |-> None] : ps \in PriceLists, w \in Windows}
    \cup {[fn |-> "calculate_52_week_high", args |-> [daily_high_prices |-> hs],
           returned |-> FALSE, result |-> None] : hs \in HighLists}
    \cup {[fn |-> f, args |-> [close_price |-> c, reference |-> r],
           returned |-> FALSE, result |-> None] :
             f \in {"calculate_percentage_change_vs_sma150",
                    "calculate_percentage_change_vs_52w_high"},
             c \in PctPrices, r \in PctReferences}
    \cup {[fn |-> "process_ticker_data",
           args |-> [historical_data |-> h, current_close |-> c],
           returned |-> FALSE, result |-> None] : h \in CalcHistories, c \in Prices}

InitCalc == ProgramInit /\ calc \in Calls /\ retry = NoRequest /\ sync = NoSync

\* The state of the program proper, which a calculation leaves alone.
program_vars == <<store, clock, calls, pc, batch_len, visited, update, records_to_store,
                  now_timestamp, tx_failed, outcome, overlaps, retry, sync>>

\* The call has returned result.
Returned(result) == [calc EXCEPT !.returned = TRUE, !.result = result]

CallSma ==
    /\ calc.fn = "calculate_sma" /\ ~calc.returned
    /\ calc' = Returned(calculate_sma(calc.args.prices, calc.args.window))
    /\ UNCHANGED program_vars

CallHi52w ==
    /\ calc.fn = "calculate_52_week_high" /\ ~calc.returned
    /\ calc' = Returned(calculate_52_week_high(calc.args.daily_high_prices))
    /\ UNCHANGED program_vars

CallPctVsSma150 ==
    /\ calc.fn = "calculate_percentage_change_vs_sma150" /\ ~calc.returned
    /\ calc' = Returned(calculate_percentage_change_vs_sma150(
                            calc.args.close_price, calc.args.reference))
    /\ UNCHANGED program_vars

CallPctVs52w ==
    /\ calc.fn = "calculate_percentage_change_vs_52w_high" /\ ~calc.returned
    /\ calc' = Returned(calculate_percentage_change_vs_52w_high(
                            calc.args.close_price, calc.args.reference))
    /\ UNCHANGED program_vars

CallProcessTickerData ==
    /\ calc.fn = "process_ticker_data" /\ ~calc.returned
    /\ calc' = Returned(process_ticker_data(calc.args.historical_data,
                                            calc.args.current_close))
    /\ UNCHANGED program_vars

NextCalc ==
    CallSma \/ CallHi52w \/ CallPctVsSma150 \/ CallPctVs52w \/ CallProcessTickerData

SpecCalc == InitCalc /\ [][NextCalc]_vars

\* ------------------------------- etl/data_fetcher.py: request_with_retry
\* The method argument, the exceptions of requests that derive from
\* RequestException, and parsed response bodies.
Methods == {"GET", "POST", "get", "PUT"}

RequestExceptions == {"ConnectionError", "Timeout", "HTTPError", "JSONDecodeError"}

Bodies == {"{}", "[]"}

\* method.upper()
Upper(method) ==
    CASE method = "get" -> "GET"
      [] method = "post" -> "POST"
      [] OTHER -> method

\* Lines 23-25: the locals at entry.
Requests ==
    {[method |-> m, pc |-> "running", num_retries |-> 0,
      backoff_seconds |-> INITIAL_BACKOFF_SECONDS, last_exception |-> None,
      errors |-> <<>>, requests |-> 0, sleeps |-> <<>>, sleeping |-> FALSE,
      result |-> None, raised |-> None] : m \in Methods}

InitRetry == ProgramInit /\ calc = NoCall /\ retry \in Requests /\ sync = NoSync

\* The state a call of request_with_retry leaves alone.
other_vars == <<store, clock, calls, pc, batch_len, visited, update, records_to_store,
                now_timestamp, tx_failed, outcome, overlaps, calc, sync>>

\* Lines 27-33: the call is not waiting, the loop runs and the method is
\* one of the two supported.
Attempting ==
    /\ retry.pc = "running"
    /\ ~retry.sleeping
    /\ retry.num_retries < MAX_RETRIES
    /\ Upper(retry.method) \in {"GET", "POST"}

\* A backoff that stays as it is.
next_backoff_constant(backoff_seconds) == backoff_seconds

\* Line 46: backoff_seconds *= 2.
next_backoff(backoff_seconds) == backoff_seconds * 2

\* Lines 30-35: a method that is neither GET nor POST raises ValueError,
\* which is no RequestException and leaves the function.
ReqUnsupported ==
    /\ retry.pc = "running"
    /\ ~retry.sleeping
    /\ retry.num_retries < MAX_RETRIES
    /\ Upper(retry.method) \notin {"GET", "POST"}
    /\ retry' = [retry EXCEPT !.pc = "raised", !.raised = Some("ValueError")]
    /\ UNCHANGED other_vars

\* Lines 30-38: the request succeeds and its parsed body is returned.
ReqReturns ==
    /\ Attempting
    /\ \E body \in Bodies :
          retry' = [retry EXCEPT !.requests = @ + 1, !.pc = "returned",
                                 !.result = Some(body)]
    /\ UNCHANGED other_vars

\* Lines 39-45, 47-49: the request, raise_for_status() or json() raises a
\* RequestException: it is counted, and the call either begins to wait
\* backoff_seconds in time.sleep or, when it was the last attempt, raises
\* it again.
ReqFails ==
    /\ Attempting
    /\ \E e \in RequestExceptions :
          retry' =
             IF retry.num_retries + 1 < MAX_RETRIES
             THEN [retry EXCEPT !.requests = @ + 1,
                                !.last_exception = Some(e),
                                !.errors = Append(@, e),
                                !.num_retries = @ + 1,
                                !.sleeps = Append(@, retry.backoff_seconds),
                                !.sleeping = TRUE]
             ELSE [retry EXCEPT !.requests = @ + 1,
                                !.last_exception = Some(e),
                                !.errors = Append(@, e),
                                !.num_retries = @ + 1,
                                !.pc = "raised",
                                !.raised = Some(e)]
    /\ UNCHANGED other_vars

\* Lines 45-46: time.sleep returns and the backoff is doubled for the
\* next wait.
ReqWakes ==
    /\ retry.pc = "running"
    /\ retry.sleeping
    /\ retry' = [retry EXCEPT !.sleeping = FALSE,
                              !.backoff_seconds = next_backoff(@)]
    /\ UNCHANGED other_vars

\* Line 38: with a requests library older than 2.27, json() raises a plain
\* ValueError for a body that is no JSON; it is not caught.
ReqJsonValueError ==
    /\ Attempting
    /\ retry' = [retry EXCEPT !.requests = @ + 1, !.pc = "raised",
                              !.raised = Some("ValueError")]
    /\ UNCHANGED other_vars

NextRetry ==
    ReqUnsupported \/ ReqReturns \/ ReqFails \/ ReqWakes \/ ReqJsonValueError

SpecRetry == InitRetry /\ [][NextRetry]_vars

\* Every attempt ends: the requests carry a timeout of 10 seconds and the
\* sleeps are finite.
FairSpecRetry == SpecRetry /\ WF_vars(NextRetry)

\* ------------------------------------ etl/main.py: run_sp500_price_sync
\* The state of the store's writers and of the other calls, which the
\* steps of run_sp500_price_sync outside update_stock_prices leave alone.
writer_vars == <<clock, calls, pc, batch_len, visited, update, records_to_store,
                 now_timestamp, tx_failed, outcome, overlaps, calc, retry>>

\* The same but for the state of the writer's transaction.
call_vars == <<clock, calls, pc, batch_len, visited, update, records_to_store,
               now_timestamp, outcome, overlaps, calc, retry>>

\* Line 78: the function is entered.
SyncEntry ==
    [pc |-> "symbols", sp500_symbols |-> 0, valid_price_updates |-> 0,
     conn |-> "none", report |-> "none"]

InitSync == ProgramInit /\ calc = NoCall /\ retry = NoRequest /\ sync = SyncEntry

\* A further run, once the last has returned.
SyncStart ==
    /\ sync.pc = "returned"
    /\ calls < MaxCalls
    /\ sync' = SyncEntry
    /\ UNCHANGED <<store, writer_vars>>

\* Lines 81-85: the symbol list is fetched; an empty list aborts the run.
SyncGetSymbols ==
    /\ sync.pc = "symbols"
    /\ \E n \in 0..MaxBatch :
          sync' = IF n = 0
                  THEN [sync EXCEPT !.pc = "returned", !.report = "aborted_symbols"]
                  ELSE [sync EXCEPT !.pc = "prices", !.sp500_symbols = n]
    /\ UNCHANGED <<store, writer_vars>>

\* Lines 88-94: a price is fetched per symbol and the entries with an
\* error are dropped; with none left the run aborts.
SyncFetchPrices ==
    /\ sync.pc = "prices"
    /\ \E n \in 0..sync.sp500_symbols :
          sync' = IF n = 0
                  THEN [sync EXCEPT !.pc = "returned", !.report = "aborted_prices"]
                  ELSE [sync EXCEPT !.pc = "connect", !.valid_price_updates = n]
    /\ UNCHANGED <<store, writer_vars>>

\* Lines 97-101, 104-105: get_db_connection returns a connection, new and
\* with no transaction aborted, or raises, which the except branch reports.
SyncConnect ==
    /\ sync.pc = "connect"
    /\ \E ok \in BOOLEAN :
          IF ok
          THEN /\ sync' = [sync EXCEPT !.pc = "update", !.conn = "open"]
               /\ tx_failed' = [tx_failed EXCEPT !["w1"] = FALSE]
          ELSE /\ sync' = [sync EXCEPT !.pc = "finally", !.report = "error"]
               /\ UNCHANGED tx_failed
    /\ UNCHANGED <<store, call_vars>>

\* Line 102: update_stock_prices is called with the valid updates.
SyncUpdateBegin ==
    /\ sync.pc = "update"
    /\ pc["w1"] = "idle"
    /\ \E now \in datetime_now :
          /\ clock' = now
          /\ now_timestamp' = [now_timestamp EXCEPT !["w1"] = now]
    /\ calls' = calls + 1
    /\ batch_len' = [batch_len EXCEPT !["w1"] = sync.valid_price_updates]
    /\ visited' = [visited EXCEPT !["w1"] = 0]
    /\ update' = [update EXCEPT !["w1"] = None]
    /\ records_to_store' = [records_to_store EXCEPT !["w1"] = <<>>]
    /\ pc' = [pc EXCEPT !["w1"] = "loop"]
    /\ outcome' = [outcome EXCEPT !["w1"] = "none"]
    /\ sync' = [sync EXCEPT !.pc = "updating"]
    /\ UNCHANGED <<store, tx_failed, overlaps, calc, retry>>

\* Lines 102-103: update_stock_prices has returned.
SyncUpdateReturns ==
    /\ sync.pc = "updating"
    /\ pc["w1"] = "idle"
    /\ outcome["w1"] # "usp_raised"
    /\ sync' = [sync EXCEPT !.pc = "finally", !.report = sync_status("w1")]
    /\ UNCHANGED <<store, writer_vars>>

\* Lines 104-105: update_stock_prices has raised, and the except branch
\* reports it.
SyncUpdateRaises ==
    /\ sync.pc = "updating"
    /\ pc["w1"] = "idle"
    /\ outcome["w1"] = "usp_raised"
    /\ sync' = [sync EXCEPT !.pc = "finally", !.report = sync_status("w1")]
    /\ UNCHANGED <<store, writer_vars>>

\* A finally branch that leaves the connection open.
SyncFinally_no_close ==
    /\ sync.pc = "finally"
    /\ sync' = [sync EXCEPT !.pc = "returned"]
    /\ UNCHANGED <<store, writer_vars>>

\* Lines 106-111: finally, a connection that was opened is closed.
SyncFinally ==
    /\ sync.pc = "finally"
    /\ sync' = [sync EXCEPT !.pc = "returned",
                            !.conn = IF sync.conn = "open" THEN "closed" ELSE @]
    /\ UNCHANGED <<store, writer_vars>>

run_sp500_price_sync ==
    \/ SyncGetSymbols \/ SyncFetchPrices \/ SyncConnect
    \/ SyncUpdateBegin \/ UspPrepare("w1") \/ UspRaise("w1") \/ UspStore("w1")
    \/ SyncUpdateReturns \/ SyncUpdateRaises \/ SyncFinally

NextSync == SyncStart \/ run_sp500_price_sync

SpecSync == InitSync /\ [][NextSync]_vars

\* The run goes on: every fetch, query and write of it ends.
FairSpecSync == SpecSync /\ WF_vars(run_sp500_price_sync)

\* ------------------------------------------------------------ the claims
\* The current snapshot of a symbol: its stored row with the greatest
\* updatedAt, None when it has no row.
CurrentSnapshot(st, s) ==
    LET rows == {r \in st : r.symbol = s}
    IN  IF rows = {} THEN None
        ELSE Some(CHOOSE r \in rows : \A q \in rows : q.updatedAt <= r.updatedAt)

\* A step of writer w inside update_stock_prices.
UspStep(w) == pc[w] \in {"loop", "store"} \/ pc'[w] \in {"loop", "store"}

\* C1: across every step of update_stock_prices, a symbol's current
\* snapshot that has a hi52w keeps one, and it does not decrease.
C1_Hi52wNonDecreasing ==
    [][\A w \in Writers : UspStep(w) =>
          \A s \in Symbols :
             LET before == CurrentSnapshot(store, s)
                 after == CurrentSnapshot(store', s)
             IN  (~IsNone(before) /\ ~IsNone(Val(before).hi52w)) =>
                    /\ ~IsNone(after)
                    /\ ~IsNone(Val(after).hi52w)
                    /\ RGe(Val(Val(after).hi52w), Val(Val(before).hi52w))]_vars

\* update_stock_prices has read an instant before that of a symbol's
\* current snapshot and committed a row of the symbol behind it, with a
\* hi52w above the snapshot's, which is still the current one; and it has
\* committed a row of the other symbol, which had none.
C1_Witness ==
    /\ outcome["w1"] = "usp_stored"
    /\ \E r \in store, q \in store, r2 \in store :
          /\ r.symbol = q.symbol
          /\ r.updatedAt = now_timestamp["w1"]
          /\ q.updatedAt > r.updatedAt
          /\ Some(q) = CurrentSnapshot(store, q.symbol)
          /\ RGt(Val(r.hi52w), Val(q.hi52w))
          /\ r2.symbol # r.symbol
          /\ r2.updatedAt = now_timestamp["w1"]
          /\ Some(r2) = CurrentSnapshot(store, r2.symbol)

\* Writer w's step appends a record to records_to_store inside the loop.
Prepares(w) ==
    pc[w] = "loop" /\ Len(records_to_store'[w]) = Len(records_to_store[w]) + 1

\* Writer w's step is an iteration of the loop: it visits an observation.
Visits(w) == pc[w] = "loop" /\ visited'[w] = visited[w] + 1

\* An observation with a non-empty symbol and a price.
ValidObservation(u) ==
    IF IsNone(u.symbol) THEN FALSE
    ELSE IF Val(u.symbol) = "" THEN FALSE
    ELSE ~IsNone(u.lastPrice)

RMax(a, b) == IF RGt(b, a) THEN b ELSE a

\* Record r is the Tracked transition of the prior snapshot on price p.
IsTrackedOf(r, prior, p) ==
    /\ r.lastPrice = p
    /\ r.sma150 = prior.sma150
    /\ r.hi52w = IF IsNone(prior.hi52w) THEN None ELSE Some(RMax(Val(prior.hi52w), p))
    /\ r.pctVsSma150 = calculate_percentage_change_vs_sma150(p, r.sma150)
    /\ r.pctVs52w = calculate_percentage_change_vs_52w_high(p, r.hi52w)

\* C2: when the store holds a snapshot of the symbol, an iteration over a
\* valid observation whose lookup succeeded prepares a record, and the
\* record is the Tracked transition of the current snapshot on the
\* observed price; and every record that update_stock_prices writes for a
\* symbol with a prior snapshot is the Tracked transition of that snapshot
\* on the record's own price.
C2_TrackedTransition ==
    [][\A w \in Writers :
          /\ (Visits(w) /\ ValidObservation(Val(update'[w])) /\ ~tx_failed'[w]) =>
                LET u == Val(update'[w])
                    prior == CurrentSnapshot(store, Val(u.symbol))
                IN  ~IsNone(prior) =>
                       /\ Prepares(w)
                       /\ LET r == records_to_store'[w][Len(records_to_store'[w])]
                          IN  /\ r.symbol = Val(u.symbol)
                              /\ r.updatedAt = [kind |-> "datetime", t |-> now_timestamp[w]]
                              /\ IsTrackedOf(r, Val(prior), Val(u.lastPrice))
          /\ (pc[w] = "store" /\ store' # store) =>
                \A i \in 1..Len(records_to_store[w]) :
                   LET r == records_to_store[w][i]
                       prior == CurrentSnapshot(store, r.symbol)
                   IN  ~IsNone(prior) => IsTrackedOf(r, Val(prior), r.lastPrice)]_vars

\* Record r is the Untracked transition on price p.
IsUntrackedOf(r, p) ==
    /\ r.lastPrice = p
    /\ r.sma150 = None
    /\ r.hi52w = Some(p)
    /\ r.pctVsSma150 = None
    /\ r.pctVs52w = Some(Num(0))

\* The positions of the records writer w has prepared for symbol s.
PreparedFor(w, s) ==
    {i \in 1..Len(records_to_store[w]) : records_to_store[w][i].symbol = s}

MaxOf(S) == CHOOSE i \in S : \A j \in S : j <= i

\* C3: when the store holds no snapshot of the symbol, the record prepared
\* for its first valid observation is the Untracked transition on the
\* observed price, and the record prepared for a later observation of the
\* symbol in the batch is the Tracked transition of the record prepared
\* before it.
C3_UntrackedThenTracked ==
    [][\A w \in Writers : Prepares(w) =>
          LET u == Val(update'[w])
              s == Val(u.symbol)
              p == Val(u.lastPrice)
              r == records_to_store'[w][Len(records_to_store'[w])]
              earlier == PreparedFor(w, s)
          IN  IsNone(CurrentSnapshot(store, s)) =>
                 /\ r.symbol = s
                 /\ IF earlier = {}
                    THEN IsUntrackedOf(r, p)
                    ELSE IsTrackedOf(r, records_to_store[w][MaxOf(earlier)], p)]_vars

\* The base of a percentage is null or zero.
BaseAbsent(base) == IF IsNone(base) THEN TRUE ELSE IsZero(Val(base))

\* Snapshot r has each percentage null exactly when its base is null or zero.
PctNullIffBaseAbsent(r) ==
    /\ IsNone(r.pctVsSma150) <=> BaseAbsent(r.sma150)
    /\ IsNone(r.pctVs52w) <=> BaseAbsent(r.hi52w)

\* C4: in every snapshot produced, stored or prepared, pctVsSma150 is null
\* exactly when sma150 is null or zero, and pctVs52w is null exactly when
\* hi52w is null or zero.
C4_PctNullIffBaseAbsent ==
    /\ \A r \in store : PctNullIffBaseAbsent(r)
    /\ \A w \in Writers : \A i \in 1..Len(records_to_store[w]) :
          PctNullIffBaseAbsent(records_to_store[w][i])

\* C5: every iteration of the loop of update_stock_prices visits one
\* observation; a valid one adds exactly one prepared record, with its
\* symbol and price, after the records prepared before, an invalid one
\* adds none; and the loop goes on to the next observation until the whole
\* batch has been visited, whatever it skipped.
C5_OneRowPerValidObservation ==
    [][\A w \in Writers : Visits(w) =>
          LET u == Val(update'[w])
              n == Len(records_to_store[w])
          IN  /\ visited'[w] = visited[w] + 1
              /\ IF ValidObservation(u)
                 THEN /\ Len(records_to_store'[w]) = n + 1
                      /\ SubSeq(records_to_store'[w], 1, n) = records_to_store[w]
                      /\ records_to_store'[w][n + 1].symbol = Val(u.symbol)
                      /\ records_to_store'[w][n + 1].lastPrice = Val(u.lastPrice)
                 ELSE records_to_store'[w] = records_to_store[w]
              /\ pc'[w] = IF visited'[w] = batch_len[w] THEN "store" ELSE "loop"]_vars

\* C6: the record prepared for a symbol carries an updatedAt above that of
\* every stored row of the symbol and of every record prepared before it
\* for the symbol in the same batch.
C6_UpdatedAtStrictlyIncreases ==
    [][\A w \in Writers : Prepares(w) =>
          LET r == records_to_store'[w][Len(records_to_store'[w])]
          IN  /\ \A q \in store : q.symbol = r.symbol => q.updatedAt < r.updatedAt.t
              /\ \A i \in PreparedFor(w, r.symbol) :
                    records_to_store[w][i].updatedAt.t < r.updatedAt.t]_vars

\* C7 as stated: no step of update_stock_prices changes the store.
C7_NoStoreWrite ==
    [][\A w \in Writers : UspStep(w) => store' = store]_vars

\* Every record writer w has prepared has a row of its symbol at the
\* call's timestamp in st, and the row is the record itself unless a later
\* record of the batch has its key.
AllPersisted(w, st) ==
    LET written == values_to_insert(records_to_store[w], NoReadings)
    IN  \A i \in 1..Len(written) :
           /\ \E row \in st : /\ row.symbol = written[i].symbol
                               /\ row.updatedAt = now_timestamp[w]
           /\ (\A j \in (i + 1)..Len(written) : ~SameKey(written[j], written[i]))
                 => written[i] \in st

\* C7, amended: update_stock_prices leaves the store unchanged while it
\* prepares its records, also when its loop raises, and once the loop has
\* ended it writes them itself: its last step hands them to
\* store_ticker_metrics, after which every prepared record has its row in
\* the store, unless nothing was prepared or the write failed, when the
\* store is unchanged.
C7_WritesAfterLoop ==
    [][\A w \in Writers : UspStep(w) =>
          IF pc[w] = "store"
          THEN IF outcome'[w] = "usp_stored"
               THEN AllPersisted(w, store')
               ELSE store' = store
          ELSE store' = store]_vars

\* update_stock_prices has returned after writing rows of two symbols at
\* its own timestamp.
C7_Witness ==
    /\ pc["w1"] = "idle"
    /\ outcome["w1"] = "usp_stored"
    /\ \A s \in Symbols :
          \E row \in store : row.symbol = s /\ row.updatedAt = now_timestamp["w1"]

\* C8: a step of update_stock_prices keeps every stored row as it is, and
\* every row it adds carries the call's timestamp, which is newer than
\* that of every row stored before; and a run ends with a row added,
\* unless it had no valid observation or its write failed.
C8_NeverMutatedInPlace ==
    [][\A w \in Writers : UspStep(w) =>
          /\ store \subseteq store'
          /\ \A r \in store' \ store :
                /\ r.updatedAt = now_timestamp[w]
                /\ \A q \in store : q.updatedAt < r.updatedAt
          /\ (pc[w] # "idle" /\ pc'[w] = "idle"
                 /\ outcome'[w] \notin {"usp_nothing", "usp_failed"}) =>
                store' \ store # {}]_vars

\* C9: the store never holds two rows of one (updatedAt, symbol) key; a
\* write that succeeds leaves, for every key written, the row last written
\* with that key, keeps every row whose key was not written, and adds
\* nothing else.
C9_LastWriteWins ==
    [][/\ \A r \in store', q \in store' : SameKey(r, q) => r = q
       /\ \A w \in Writers :
             (pc[w] \in {"store", "direct_store"}
                 /\ outcome'[w] \in {"usp_stored", "direct_stored"}) =>
                LET written == values_to_insert(records_to_store[w], NoReadings)
                    n == Len(written)
                IN  /\ \A i \in 1..n :
                          (\A j \in (i + 1)..n : ~SameKey(written[j], written[i]))
                             => written[i] \in store'
                    /\ \A q \in store :
                          (\A i \in 1..n : ~SameKey(written[i], q)) => q \in store'
                    /\ \A r \in store' :
                          r \in store \/ \E i \in 1..n : written[i] = r]_vars

\* Rows have been stored, and store_ticker_metrics is about to write two
\* records: one whose key is that of a stored row with other values, and
\* one of the other symbol with a later updatedAt, the clock's.
C9_Witness ==
    /\ pc["w1"] = "direct_store"
    /\ Len(records_to_store["w1"]) = 2
    /\ LET written == values_to_insert(records_to_store["w1"], NoReadings)
       IN  /\ \E row \in store : SameKey(row, written[1]) /\ row # written[1]
           /\ written[2].symbol # written[1].symbol
           /\ written[2].updatedAt > written[1].updatedAt
           /\ written[2].updatedAt = clock

\* C10: in every store reached, a query that succeeds returns None for a
\* symbol without rows and otherwise the symbol's row of maximal updatedAt,
\* and returns the same on the symbol's rows alone.
C10_LatestRowOfSymbol ==
    \A s \in Symbols :
       LET rows == {r \in store : r.symbol = s}
           got == get_latest_metrics_for_symbol(store, s, TRUE)
       IN  /\ rows = {} => IsNone(got)
           /\ rows # {} => /\ ~IsNone(got)
                           /\ Val(got) \in rows
                           /\ \A q \in rows : q.updatedAt <= Val(got).updatedAt
           /\ got = get_latest_metrics_for_symbol(rows, s, TRUE)

\* The store holds two rows of a symbol and a row of another symbol that
\* is newer than the older of the two.
C10_Witness ==
    \E r \in store, q \in store, o \in store :
       /\ r.symbol = q.symbol
       /\ r.updatedAt < q.updatedAt
       /\ o.symbol # r.symbol
       /\ o.updatedAt > r.updatedAt

\* C11: when the write of update_stock_prices has failed, the failure has
\* reached run_sp500_price_sync: it reports an error, not a completed
\* update.
C11_WriteFailureBubbles ==
    \A w \in Writers : outcome[w] = "usp_failed" => sync_status(w) = "error"

\* The ratchet is broken for a symbol: its current snapshot has a lower
\* hi52w than an earlier stored snapshot of it.
RatchetBroken(st, s) ==
    \E r \in st, q \in st :
        /\ r.symbol = s /\ q.symbol = s
        /\ Some(r) = CurrentSnapshot(st, s)
        /\ q.updatedAt < r.updatedAt
        /\ ~IsNone(r.hi52w) /\ ~IsNone(q.hi52w)
        /\ RGt(Val(q.hi52w), Val(r.hi52w))

\* C12: with two unserialized writers the ratchet can be broken, and it
\* is broken only when two read-prior-then-write sequences of one symbol
\* have overlapped: while they are serialized per symbol no state with a
\* broken ratchet is reached.
C12_BrokenOnlyBySymbolOverlap ==
    (\E s \in Symbols : RatchetBroken(store, s)) => "symbol" \in overlaps

\* The rows, and the prepared records, of one symbol.
OwnRows(st, s) == {r \in st : r.symbol = s}

OwnRecords(records, s) == SelectSeq(records, LAMBDA r : r.symbol = s)

\* C13: within a call of update_stock_prices, the record prepared for an
\* observation is the one its symbol's own rows and the observation give,
\* whatever rows and records of other symbols there are; an iteration
\* leaves the records prepared before as they are, those of the other
\* symbols whatever it does with its own observation; after a successful
\* write the rows of each symbol are those the symbol's own rows and own
\* records give.
C13_IndependentPerSymbol ==
    [][\A w \in Writers :
          /\ Prepares(w) =>
                LET u == Val(update'[w])
                    n == Len(records_to_store'[w])
                IN  /\ records_to_store'[w][n] =
                          prepared_record(OwnRows(store, Val(u.symbol)), u,
                                          now_timestamp[w], ~tx_failed'[w])
                    /\ SubSeq(records_to_store'[w], 1, n - 1) = records_to_store[w]
          /\ (Visits(w) /\ ValidObservation(Val(update'[w]))) =>
                \A s \in Symbols \ {Val(Val(update'[w]).symbol)} :
                   OwnRecords(records_to_store'[w], s) = OwnRecords(records_to_store[w], s)
          /\ (pc[w] = "store" /\ outcome'[w] = "usp_stored") =>
                \A s \in Symbols :
                   OwnRows(store', s) =
                      store_ticker_metrics(OwnRows(store, s),
                                           OwnRecords(records_to_store[w], s),
                                           NoReadings, TRUE)]_vars

\* The sum of the last k elements of s, one by one from the end.
RECURSIVE SumLast(_, _)
SumLast(s, k) ==
    IF k = 0 THEN Num(0) ELSE RAdd(s[Len(s) - k + 1], SumLast(s, k - 1))

\* C14: calculate_sma(prices, window) returns null when prices is empty,
\* shorter than window, or window is zero or negative, and otherwise the
\* arithmetic mean of the last window prices.
C14_Sma ==
    (calc.fn = "calculate_sma" /\ calc.returned) =>
        LET prices == calc.args.prices
            window == calc.args.window
        IN  calc.result =
               IF Len(prices) = 0 \/ Len(prices) < window \/ window <= 0
               THEN None
               ELSE Some(RDiv(SumLast(prices, window), Num(window)))

\* calculate_sma([10, 11, 12, 13, 14], 3) has returned 13.
C14_Witness ==
    /\ calc.fn = "calculate_sma" /\ calc.returned
    /\ calc.args.prices = SmaExample /\ calc.args.window = 3
    /\ calc.result = Some(Num(13))

\* C15: calculate_52_week_high(highs) returns null when highs is empty, and
\* otherwise the greatest of the last min(252, len(highs)) highs.
C15_Hi52w ==
    (calc.fn = "calculate_52_week_high" /\ calc.returned) =>
        LET highs == calc.args.daily_high_prices
            n == Len(highs)
            k == IF n < 252 THEN n ELSE 252
            last == {highs[i] : i \in (n - k + 1)..n}
        IN  IF n = 0 THEN calc.result = None
            ELSE /\ ~IsNone(calc.result)
                 /\ Val(calc.result) \in last
                 /\ \A h \in last : RGe(Val(calc.result), h)

\* calculate_52_week_high has returned for a list of more than 252 highs
\* whose first high is above the result.
C15_Witness ==
    /\ calc.fn = "calculate_52_week_high" /\ calc.returned
    /\ Len(calc.args.daily_high_prices) > 252
    /\ ~IsNone(calc.result)
    /\ RGt(calc.args.daily_high_prices[1], Val(calc.result))

PctFunctions ==
    {"calculate_percentage_change_vs_sma150", "calculate_percentage_change_vs_52w_high"}

\* C16: each percentage function returns null when the reference is null
\* or zero, and otherwise (current - reference) / reference * 100: the
\* number which times the reference gives 100 times the difference, with
\* the sign of the difference against a positive reference; and the two
\* functions give the same result on the same arguments.
C16_Percentages ==
    (calc.fn \in PctFunctions /\ calc.returned) =>
        LET current == calc.args.close_price
            reference == calc.args.reference
        IN  /\ IF IsNone(reference) THEN calc.result = None
               ELSE IF Val(reference) = Num(0) THEN calc.result = None
               ELSE /\ ~IsNone(calc.result)
                    /\ RMul(Val(calc.result), Val(reference)) =
                          RMul(RSub(current, Val(reference)), Num(100))
                    /\ RGt(Val(reference), Num(0)) =>
                          /\ RGt(current, Val(reference)) <=> RGt(Val(calc.result), Num(0))
                          /\ RGt(Val(reference), current) <=> RGt(Num(0), Val(calc.result))
            /\ calc.result = calculate_percentage_change_vs_sma150(current, reference)
            /\ calc.result = calculate_percentage_change_vs_52w_high(current, reference)

\* calculate_percentage_change_vs_52w_high(190, 200) has returned -5.
C16_Witness ==
    /\ calc.fn = "calculate_percentage_change_vs_52w_high" /\ calc.returned
    /\ calc.args.close_price = Num(190) /\ calc.args.reference = Some(Num(200))
    /\ calc.result = Some(Num(0 - 5))

\* C17: process_ticker_data returns null when the history is empty or a
\* bar lacks its close or its high, and otherwise a snapshot whose
\* lastPrice is the current price, whose sma150 is calculate_sma(closes,
\* 150), whose hi52w is calculate_52_week_high(highs), and whose
\* percentages are derived from the current price and those two.
C17_ProcessTickerData ==
    (calc.fn = "process_ticker_data" /\ calc.returned) =>
        LET history == calc.args.historical_data
            currentPrice == calc.args.current_close
            n == Len(history)
        IN  IF n = 0 \/ \E i \in 1..n : IsNone(history[i].close) \/ IsNone(history[i].high)
            THEN calc.result = None
            ELSE LET closes == [i \in 1..n |-> Val(history[i].close)]
                     highs == [i \in 1..n |-> Val(history[i].high)]
                 IN  /\ ~IsNone(calc.result)
                     /\ Val(calc.result).lastPrice = currentPrice
                     /\ Val(calc.result).sma150 = calculate_sma(closes, 150)
                     /\ Val(calc.result).hi52w = calculate_52_week_high(highs)
                     /\ Val(calc.result).pctVsSma150 =
                           calculate_percentage_change_vs_sma150(
                              currentPrice, Val(calc.result).sma150)
                     /\ Val(calc.result).pctVs52w =
                           calculate_percentage_change_vs_52w_high(
                              currentPrice, Val(calc.result).hi52w)

\* process_ticker_data has returned a snapshot with an average, for a
\* current price that is not the last bar's close.
C17_Witness ==
    /\ calc.fn = "process_ticker_data" /\ calc.returned
    /\ ~IsNone(calc.result)
    /\ ~IsNone(Val(calc.result).sma150)
    /\ ~IsNone(Val(calc.result).pctVsSma150)
    /\ LET history == calc.args.historical_data
       IN  Val(history[Len(history)].close) # Val(calc.result).lastPrice

\* C18: get_latest_metrics_for_symbol returns None when the symbol has no
\* row and when the query fails, and update_stock_prices takes the
\* Untracked branch in both cases: the record it prepares has a null
\* sma150 and the observed price as hi52w, whatever rows of the symbol
\* the store holds.
C18_FailedLookupIsUntracked ==
    [][\A w \in Writers :
          /\ \A s \in Symbols :
                /\ get_latest_metrics_for_symbol(store, s, FALSE) = None
                /\ OwnRows(store, s) = {} =>
                      get_latest_metrics_for_symbol(store, s, TRUE) = None
          /\ Prepares(w) =>
                LET u == Val(update'[w])
                    r == records_to_store'[w][Len(records_to_store'[w])]
                IN  (tx_failed'[w] \/ OwnRows(store, Val(u.symbol)) = {}) =>
                       /\ r.symbol = Val(u.symbol)
                       /\ IsUntrackedOf(r, Val(u.lastPrice))]_vars

\* After a failed lookup the call holds an Untracked record of a symbol
\* whose stored snapshot has a higher hi52w.
C18_Witness ==
    /\ tx_failed["w1"]
    /\ Len(records_to_store["w1"]) > 0
    /\ LET r == records_to_store["w1"][Len(records_to_store["w1"])]
       IN  /\ IsUntrackedOf(r, r.lastPrice)
           /\ \E q \in store :
                 /\ q.symbol = r.symbol
                 /\ ~IsNone(q.hi52w)
                 /\ RGt(Val(q.hi52w), Val(r.hi52w))

\* What holds of a call of request_with_retry at every moment.
RetryInv ==
    LET failures == Len(retry.errors)
        supported == Upper(retry.method) \in {"GET", "POST"}
    IN  /\ retry.requests <= 3
        /\ retry.pc = "running" => failures < 3
        /\ retry.pc = "returned" =>
              /\ ~IsNone(retry.result) /\ IsNone(retry.raised)
              /\ retry.requests = failures + 1
        /\ (retry.pc = "raised" /\ Val(retry.raised) \in RequestExceptions) =>
              /\ failures = 3 /\ retry.requests = 3
              /\ Val(retry.raised) = retry.errors[3]
              /\ retry.sleeps = <<1, 2>>
        /\ Len(retry.sleeps) = (IF failures < 3 THEN failures ELSE 2)
        /\ \A i \in 1..Len(retry.sleeps) : retry.sleeps[i] = (IF i = 1 THEN 1 ELSE 2)
        /\ retry.sleeping =>
              /\ retry.pc = "running" /\ failures \in 1..2
              /\ retry.num_retries = failures
              /\ retry.backoff_seconds = retry.sleeps[failures]
        /\ (retry.pc = "running" /\ ~retry.sleeping) =>
              retry.backoff_seconds = (IF failures = 0 THEN 1
                                       ELSE 2 * retry.sleeps[failures])
        /\ (~supported /\ retry.pc # "running") =>
              /\ retry.pc = "raised" /\ retry.raised = Some("ValueError")
              /\ retry.requests = 0 /\ failures = 0 /\ retry.sleeps = <<>>

RetryDone == retry.pc \in {"returned", "raised"}

\* C19: request_with_retry ends, after at most 3 requests: it returns the
\* body of the first request that succeeds and requests no more, raises
\* the last RequestException after the third failure in a row, sleeps 1 s
\* and then 2 s between failed requests (the backoff is doubled when a
\* sleep is over) and not after the last, and raises ValueError for an
\* unsupported method without a request or a retry.
C19_RetryTerminates ==
    /\ []RetryInv
    /\ [][/\ RetryDone => retry' = retry
          /\ retry'.requests <= retry.requests + 1]_vars
    /\ <>RetryDone

\* Three requests have failed, 1 s and 2 s were slept, and the exception
\* of the third was raised, which is not that of the second.
C19_Witness ==
    /\ retry.pc = "raised"
    /\ Len(retry.errors) = 3
    /\ retry.raised = Some(retry.errors[3])
    /\ retry.errors[2] # retry.errors[3]
    /\ retry.sleeps = <<1, 2>>

\* C20: a call of store_ticker_metrics is all or nothing.  When the write
\* fails the call raises and the store is exactly as before; when it
\* succeeds the store holds, in one step, a row for every record of the
\* batch, with the values of the last record of its key; with nothing to
\* write the store is as before.
C20_AllOrNothing ==
    [][\A w \in Writers : pc[w] \in {"store", "direct_store"} =>
          LET metrics_data == records_to_store[w]
              rows == values_to_insert(metrics_data, NoReadings)
              n == Len(rows)
          IN  \/ /\ outcome'[w] \in {"usp_failed", "direct_failed"}
                 /\ n > 0
                 /\ store_ticker_metrics_raises(metrics_data, FALSE)
                 /\ store' = store
              \/ /\ outcome'[w] \in {"usp_stored", "direct_stored"}
                 /\ n > 0
                 /\ \A i \in 1..n :
                       IF \E j \in (i + 1)..n : SameKey(rows[j], rows[i])
                       THEN \E q \in store' : SameKey(q, rows[i])
                       ELSE rows[i] \in store'
                 /\ \A q \in store' \ store : \E i \in 1..n : q = rows[i]
              \/ /\ outcome'[w] = "usp_nothing"
                 /\ n = 0
                 /\ store' = store]_vars

\* A write of update_stock_prices has failed and the call has returned:
\* the store holds earlier rows and none of the failed call.
C20_Witness ==
    /\ outcome["w1"] = "usp_failed"
    /\ pc["w1"] = "idle"
    /\ store # {}
    /\ \A q \in store : q.updatedAt < now_timestamp["w1"]

\* C21: run_sp500_price_sync opens a connection only when it has a
\* non-empty symbol list and at least one error-free price update; a run
\* that aborts for want of either has opened none, and no step changes the
\* store unless the run's connection is open; every connection opened is
\* closed in the end, and is not open when the function has returned,
\* also when update_stock_prices has raised.
C21_ConnectionLifecycle ==
    /\ [](sync.conn # "none" =>
             sync.sp500_symbols > 0 /\ sync.valid_price_updates > 0)
    /\ [](sync.report \in {"aborted_symbols", "aborted_prices"} =>
             sync.pc = "returned" /\ sync.conn = "none")
    /\ [](sync.pc = "returned" => sync.conn # "open")
    /\ [][/\ store' # store => sync.conn = "open"
          /\ sync.pc \in {"symbols", "prices", "connect"} =>
                store' = store /\ pc' = pc]_vars
    /\ (sync.conn = "open" ~> sync.conn = "closed")

\* update_stock_prices has raised inside a run, which reported the error,
\* closed its connection and returned.
C21_Witness ==
    /\ sync.pc = "returned"
    /\ sync.report = "error"
    /\ sync.conn = "closed"
    /\ outcome["w1"] = "usp_raised"

\* Two snapshots with the same values, updatedAt apart.
SameValues(r, q) ==
    /\ r.lastPrice = q.lastPrice
    /\ r.sma150 = q.sma150
    /\ r.hi52w = q.hi52w
    /\ r.pctVsSma150 = q.pctVsSma150
    /\ r.pctVs52w = q.pctVs52w

\* The record of a first delivery of price p for symbol s to the store
\* st, and what a second delivery of it gives once the first is stored: a
\* record, or TypeError.
Redelivery(st, s, p, now) ==
    LET u == [symbol |-> Some(s), lastPrice |-> Some(p)]
        first == prepared_record(st, u, now + 1, TRUE)
        stored == IF Raised(first) THEN st
                  ELSE store_ticker_metrics(st, <<first>>, NoReadings, TRUE)
        second == prepared_record(stored, u, now + 2, TRUE)
    IN  [first |-> first, second |-> second]

\* C22: for every store, every symbol (with or without a prior snapshot)
\* and every price, a first and a second delivery of the price each give a
\* snapshot, and the snapshot of the second has the values of the snapshot
\* of the first.
C22_RedeliveryIdempotent ==
    \A s \in Symbols, p \in Prices :
        LET d == Redelivery(store, s, p, clock)
        IN  /\ ~Raised(d.first)
            /\ ~Raised(d.second)
            /\ SameValues(d.first, d.second)

====
